---------------------------- MODULE Spec2Model ----------------------------
(***************************************************************************)
(* Model of parser/gxt_global_diff.py: the block parser, the diff engine,  *)
(* the serializer and run_diff.                                            *)
(*                                                                         *)
(* A str is a sequence of one-character strings, a file is a sequence of   *)
(* bytes, a dict is the sequence of its <<key, value>> items in insertion  *)
(* order (Python dicts iterate in insertion order), a list is a sequence.  *)
(***************************************************************************)
EXTENDS Integers, Sequences, FiniteSets, TLC

VARIABLES
    fs,        \* the file system: path -> [exists, data], data a byte sequence
    pc,        \* control point of the running specification
    text,      \* parse_global_text: its argument
    lines,     \* parse_global_text: text.splitlines(), which the for loop iterates
    idx,       \* parse_global_text: number of lines the for loop has consumed
    in_block,  \* parse_global_text: local in_block
    d,         \* parse_global_text: local d
    order,     \* parse_global_text: local order
    args,      \* arguments of the last call (run_diff, or emit_lines/write_output)
    fs0,       \* the file system as it was when run_diff was called
    missing,   \* run_diff: local missing
    summary,   \* run_diff: the values formatted into the returned summary
    back       \* the table parse_global_file returns for the written file

vars == <<fs, pc, text, lines, idx, in_block, d, order, args, fs0, missing, summary, back>>

---------------------------------------------------------------------------
(* Characters and strings                                                  *)

\* The characters of the model, a subset of ASCII.
Alphabet ==
    { "\t", "\n", " ", "#", "/", "0", "1", "2", "3", ";", "=", "A", "B", "C",
      "E", "I", "N", "O", "R", "S", "V", "X", "Z",
      "a", "b", "c", "e", "i", "n", "o", "r", "s", "v", "x", "z", "{", "}" }

\* The code point of each character.
CodePoint ==
    [c \in Alphabet |->
        CASE c = "\t" -> 9   [] c = "\n" -> 10  [] c = " " -> 32  [] c = "#" -> 35
          [] c = "/" -> 47   [] c = "0" -> 48   [] c = "1" -> 49  [] c = "2" -> 50
          [] c = "3" -> 51   [] c = ";" -> 59   [] c = "=" -> 61  [] c = "A" -> 65
          [] c = "B" -> 66   [] c = "C" -> 67   [] c = "E" -> 69  [] c = "I" -> 73
          [] c = "N" -> 78   [] c = "O" -> 79   [] c = "R" -> 82  [] c = "S" -> 83
          [] c = "V" -> 86   [] c = "X" -> 88   [] c = "Z" -> 90  [] c = "a" -> 97
          [] c = "b" -> 98   [] c = "c" -> 99   [] c = "e" -> 101 [] c = "i" -> 105
          [] c = "n" -> 110  [] c = "o" -> 111  [] c = "r" -> 114 [] c = "s" -> 115
          [] c = "v" -> 118  [] c = "x" -> 120  [] c = "z" -> 122 [] c = "{" -> 123
          [] c = "}" -> 125]

\* The character of each code point of the alphabet.
CharOf ==
    [n \in {CodePoint[c] : c \in Alphabet} |-> CHOOSE c \in Alphabet : CodePoint[c] = n]

\* ord(c)
Ord(c) == CodePoint[c]

\* chr(n)
Chr(n) == CharOf[n]

\* What \s of re and str.strip() take for whitespace, within the alphabet.
IsSpace(c) == c \in {" ", "\t", "\n"}

\* [0-9A-Fa-f], within the alphabet.
IsHex(c) == c \in {"0", "1", "2", "3", "A", "B", "C", "E", "a", "b", "c", "e"}

\* str.upper() on one character: a-z map to A-Z, the rest is kept.
UpperChar(c) == IF Ord(c) >= 97 /\ Ord(c) <= 122 THEN Chr(Ord(c) - 32) ELSE c

\* str.upper
Upper(s) == [i \in 1..Len(s) |-> UpperChar(s[i])]

\* Python's s < t on str: lexicographic by code point, a proper prefix is less.
StrLess(s, t) ==
    \E i \in 1..(Len(t)) :
        /\ \A j \in 1..(i - 1) : j <= Len(s) /\ s[j] = t[j]
        /\ Len(s) >= i - 1
        /\ \/ Len(s) = i - 1
           \/ Len(s) >= i /\ Ord(s[i]) < Ord(t[i])

Min(S) == CHOOSE x \in S : \A y \in S : x <= y
Max(S) == CHOOSE x \in S : \A y \in S : x >= y

\* Index of the first character at or after i that is not whitespace (Len+1 if none).
SkipSpace(s, i) == Min({j \in i..(Len(s) + 1) : j = Len(s) + 1 \/ ~IsSpace(s[j])})

\* Index of the first character at or after i that is not a hex digit.
SkipHex(s, i) == Min({j \in i..(Len(s) + 1) : j = Len(s) + 1 \/ ~IsHex(s[j])})

\* str.strip()
strip(s) ==
    LET I == {i \in 1..Len(s) : ~IsSpace(s[i])}
    IN  IF I = {} THEN <<>> ELSE SubSeq(s, Min(I), Max(I))

\* str.startswith
startswith(t, p) == Len(t) >= Len(p) /\ SubSeq(t, 1, Len(p)) = p

RECURSIVE SplitFrom(_, _, _)
SplitFrom(s, i, acc) ==
    LET nl == {j \in i..Len(s) : s[j] = "\n"}
    IN  IF i > Len(s) THEN acc
        ELSE IF nl = {} THEN Append(acc, SubSeq(s, i, Len(s)))
        ELSE SplitFrom(s, Min(nl) + 1, Append(acc, SubSeq(s, i, Min(nl) - 1)))

\* str.splitlines(): the lines without their terminators, a line ending at each
\* newline and at the end of s; no empty last line.
splitlines(s) == SplitFrom(s, 1, <<>>)

RECURSIVE Concat(_)
Concat(ss) == IF ss = <<>> THEN <<>> ELSE Head(ss) \o Concat(Tail(ss))

---------------------------------------------------------------------------
(* Encoding                                                                *)

\* The UTF-8 byte order mark.
BOM == <<239, 187, 191>>

\* str.encode("utf-8") on the alphabet: one byte per character.
Utf8Encode(s) == [i \in 1..Len(s) |-> Ord(s[i])]

\* bytes.decode("utf-8-sig"): a leading byte order mark is dropped.  Every byte
\* sequence over the alphabet decodes, so the first encoding smart_read tries wins.
Utf8SigDecode(b) ==
    LET body == IF Len(b) >= 3 /\ SubSeq(b, 1, 3) = BOM
                THEN SubSeq(b, 4, Len(b)) ELSE b
    IN  [i \in 1..Len(body) |-> Chr(body[i])]

smart_read(files, path) == Utf8SigDecode(files[path].data)

---------------------------------------------------------------------------
(* Parsing helpers                                                         *)

COMMENT_PREFIXES == << <<"#">>, <<";">>, <<"/", "/">> >>

\* OPEN_BRACE_RE.search(line): "{\s*$"
OPEN_BRACE_RE(line) ==
    \E i \in 1..Len(line) :
        line[i] = "{" /\ \A j \in (i + 1)..Len(line) : IsSpace(line[j])

\* CLOSE_BRACE_RE.search(line): "}\s*$"
CLOSE_BRACE_RE(line) ==
    \E i \in 1..Len(line) :
        line[i] = "}" /\ \A j \in (i + 1)..Len(line) : IsSpace(line[j])

is_comment_or_blank(s) ==
    LET t == strip(s)
    IN  IF t = <<>> THEN TRUE
        ELSE \E n \in 1..Len(COMMENT_PREFIXES) : startswith(t, COMMENT_PREFIXES[n])

\* Mutant of PairValue: the value also loses its trailing whitespace.
PairValueRStrip(line, from) ==
    LET I == {i \in from..Len(line) : ~IsSpace(line[i])}
    IN  IF I = {} THEN <<>> ELSE SubSeq(line, from, Max(I))

\* Group 2 of PAIR_RE, "(.*)$", once "=\s*" has matched up to from - 1.
PairValue(line, from) == SubSeq(line, from, Len(line))

\* PAIR_RE.match(line): "^\s*(0x[0-9A-Fa-f]+)\s*=\s*(.*)$"; ok is whether it
\* matched, key and val are groups 1 and 2.
PAIR_RE(line) ==
    LET n  == Len(line)
        k0 == SkipSpace(line, 1)
        h0 == k0 + 2
        h1 == SkipHex(line, h0)
        e  == SkipSpace(line, h1)
        v0 == SkipSpace(line, e + 1)
    IN  IF /\ k0 + 1 <= n
           /\ line[k0] = "0"
           /\ line[k0 + 1] = "x"
           /\ h1 > h0
           /\ e <= n
           /\ line[e] = "="
        THEN [ok |-> TRUE, key |-> SubSeq(line, k0, h1 - 1), val |-> PairValue(line, v0)]
        ELSE [ok |-> FALSE, key |-> <<>>, val |-> <<>>]

---------------------------------------------------------------------------
(* dict                                                                    *)

\* list(d.keys()): the keys in insertion order.
DictKeys(dict) == [i \in 1..Len(dict) |-> dict[i][1]]

\* k in d
DictHas(dict, k) == \E i \in 1..Len(dict) : dict[i][1] = k

\* d.get(k, default)
DictGet(dict, k, default) ==
    IF DictHas(dict, k)
    THEN dict[CHOOSE i \in 1..Len(dict) : dict[i][1] = k][2]
    ELSE default

\* d[k] = v: a new key is added last, a present key keeps its place.
DictSet(dict, k, v) ==
    IF DictHas(dict, k)
    THEN [i \in 1..Len(dict) |-> IF dict[i][1] = k THEN <<k, v>> ELSE dict[i]]
    ELSE Append(dict, <<k, v>>)

Range(s) == {s[i] : i \in 1..Len(s)}

NoDup(s) == \A i, j \in 1..Len(s) : s[i] = s[j] => i = j

---------------------------------------------------------------------------
(* parse_global_text                                                       *)

\* Mutant of StoreEntry: a repeated key keeps its first value.
StoreEntryFirstWins(st, key, val) ==
    IF ~DictHas(st.d, key)
    THEN [st EXCEPT !.d = DictSet(st.d, key, val), !.order = Append(st.order, key)]
    ELSE st

\* Mutant of StoreEntry: a repeated key is appended to order again.
StoreEntryAppendAgain(st, key, val) ==
    [st EXCEPT !.d = DictSet(st.d, key, val), !.order = Append(st.order, key)]

\* Lines 45-49: record the entry.
StoreEntry(st, key, val) ==
    IF ~DictHas(st.d, key)
    THEN [st EXCEPT !.d = DictSet(st.d, key, val), !.order = Append(st.order, key)]
    ELSE [st EXCEPT !.d = DictSet(st.d, key, val)]

\* Mutant of OnCloseBrace: the loop goes on after the close-brace line.
OnCloseBraceContinue(st) == st

\* Lines 37-38: break.
OnCloseBrace(st) == [st EXCEPT !.brk = TRUE]

\* Mutant of OnCommentOrBlank: a comment or blank line ends the loop.
OnCommentOrBlankBreak(st) == [st EXCEPT !.brk = TRUE]

\* Lines 39-40: continue.
OnCommentOrBlank(st) == st

\* Mutant of BeforeBlock: any line opens the block.
BeforeBlockAlwaysOpen(st, line) == [st EXCEPT !.in_block = TRUE]

\* Lines 33-36: outside the block only an open-brace line has an effect.
BeforeBlock(st, line) ==
    IF OPEN_BRACE_RE(line) THEN [st EXCEPT !.in_block = TRUE] ELSE st

\* One iteration of the for loop (lines 33-49) on the locals
\* st = [in_block, d, order, brk]; brk says the loop was left by break.
LoopBody(st, line) ==
    IF ~st.in_block THEN BeforeBlock(st, line)
    ELSE IF CLOSE_BRACE_RE(line) THEN OnCloseBrace(st)
    ELSE IF is_comment_or_blank(line) THEN OnCommentOrBlank(st)
    ELSE LET m == PAIR_RE(line)
         IN  IF ~m.ok THEN st ELSE StoreEntry(st, m.key, m.val)

\* The locals at line 29-31.
ParseStart == [in_block |-> FALSE, d |-> <<>>, order |-> <<>>, brk |-> FALSE]

RECURSIVE ParseFrom(_, _, _)
ParseFrom(ls, i, st) ==
    IF i > Len(ls) \/ st.brk THEN st
    ELSE ParseFrom(ls, i + 1, LoopBody(st, ls[i]))

\* parse_global_text(text): the pair (d, order) as a record.
parse_global_text(t) ==
    LET st == ParseFrom(splitlines(t), 1, ParseStart)
    IN  [d |-> st.d, order |-> st.order]

parse_global_file(files, path) == parse_global_text(smart_read(files, path))

---------------------------------------------------------------------------
(* Serializer                                                              *)

\* f"{indent}{k} = {src.get(k,'')}" for k in keys
emit_lines(keys, src, indent) ==
    [i \in 1..Len(keys) |-> indent \o keys[i] \o <<" ", "=", " ">> \o DictGet(src, keys[i], <<>>)]

\* Line 61: the header line, without its newline.
VersionLine(title) ==
    <<"V", "e", "r", "s", "i", "o", "n", " ", "2", " ", "3", "0">>
        \o (IF title # <<>> THEN <<" ", " ", "#", " ">> \o title ELSE <<>>)

\* Mutant of OutputText: the wrapped output lacks its open-brace line.
OutputTextNoOpenBrace(ls, wrap, title) ==
    LET body == Concat([i \in 1..Len(ls) |-> ls[i] \o <<"\n">>])
    IN  IF wrap
        THEN VersionLine(title) \o <<"\n">> \o body \o <<"}", "\n">>
        ELSE body

\* Lines 60-68: all that write_output writes, in order.
OutputText(ls, wrap, title) ==
    LET body == Concat([i \in 1..Len(ls) |-> ls[i] \o <<"\n">>])
    IN  IF wrap
        THEN VersionLine(title) \o <<"\n">> \o <<"{", "\n">> \o body \o <<"}", "\n">>
        ELSE body

\* write_output(path, lines, wrap, title, indent): the file system after it; the
\* file at path is created or replaced.  indent is not used.
write_output(files, path, ls, wrap, title, indent) ==
    [files EXCEPT ![path] = [exists |-> TRUE, data |-> Utf8Encode(OutputText(ls, wrap, title))]]

---------------------------------------------------------------------------
(* Diff engine and run_diff                                                *)

\* key=str.upper
SortKey(k) == Upper(k)

\* ks with k put after the last element whose sort key is not greater than k's.
InsertSorted(ks, k) ==
    LET I == {i \in 1..Len(ks) : StrLess(SortKey(k), SortKey(ks[i]))}
        at == IF I = {} THEN Len(ks) + 1 ELSE Min(I)
    IN  SubSeq(ks, 1, at - 1) \o <<k>> \o SubSeq(ks, at, Len(ks))

RECURSIVE SortedFrom(_, _, _)
SortedFrom(ks, i, acc) ==
    IF i > Len(ks) THEN acc ELSE SortedFrom(ks, i + 1, InsertSorted(acc, ks[i]))

\* sorted(ks, key=str.upper): ascending by sort key, stable.
sorted(ks) == SortedFrom(ks, 1, <<>>)

\* Mutant of SourceOrder: the keys are sorted even when keep_order is set.
SourceOrderAlwaysSorted(tab, keep_order) == sorted(DictKeys(tab.d))

\* Mutant of SourceOrder: the keys are never sorted.
SourceOrderNeverSorted(tab, keep_order) == tab.order

\* Lines 75 and 79: X_order if keep_order else sorted(X_dict.keys(), key=str.upper)
SourceOrder(tab, keep_order) ==
    IF keep_order THEN tab.order ELSE sorted(DictKeys(tab.d))

\* Mutant of MissingKeys: the keys that are in the other table are kept.
MissingKeysPresent(source_order, other) ==
    SelectSeq(source_order, LAMBDA k : DictHas(other, k))

\* Lines 76 and 80: [k for k in source_order if k not in X_dict]
MissingKeys(source_order, other) ==
    SelectSeq(source_order, LAMBDA k : ~DictHas(other, k))

\* Mutant of CountOnly: counts the keys the two dicts share.
CountShared(da, db) == Cardinality({i \in 1..Len(da) : DictHas(db, da[i][1])})

\* Lines 86 and 87: sum(1 for k in da if k not in db)
CountOnly(da, db) == Cardinality({i \in 1..Len(da) : ~DictHas(db, da[i][1])})

\* run_diff: [fs: the file system after the call, missing: the local missing,
\* summary: the values the returned summary is formatted from].
run_diff(files, base, latest, out, invert, keep_order, wrap, title, indent) ==
    LET b == parse_global_file(files, base)
        l == parse_global_file(files, latest)
        source_order == IF invert THEN SourceOrder(l, keep_order)
                                  ELSE SourceOrder(b, keep_order)
        miss == IF invert THEN MissingKeys(source_order, b.d)
                          ELSE MissingKeys(source_order, l.d)
        src == IF invert THEN l.d ELSE b.d
        ls == emit_lines(miss, src, indent)
    IN  [fs |-> write_output(files, out, ls, wrap, title, indent),
         missing |-> miss,
         summary |-> [written |-> Len(miss), out |-> out,
                      base_keys |-> Len(b.d), latest_keys |-> Len(l.d),
                      base_only |-> CountOnly(b.d, l.d),
                      latest_only |-> CountOnly(l.d, b.d)]]

---------------------------------------------------------------------------
(* Inputs                                                                  *)

\* Longest input of parse_global_text, in lines.
MaxLines == 4

\* The lines the inputs of parse_global_text are made of.
LinePool ==
    { <<"{">>,                                             \* {
      <<"}">>,                                             \* }
      <<" ">>,                                             \* a blank line
      <<"#", " ", "0", "x", "3", "=", "X">>,               \* # 0x3=X
      <<";">>,                                             \* ;
      <<"/", "/", "0", "x", "1", "=", "A">>,               \* //0x1=A
      <<"/", "/", "}">>,                                   \* //}
      <<"0", "x", "1", "=", "A">>,                         \* 0x1=A
      <<" ", "0", "x", "1", " ", "=", " ", " ", "B", " ">>,\*  0x1 =  B_
      <<"0", "x", "a", "=", "{">> }                        \* 0xa={

\* All sequences over S of length at most n.
SeqsUpTo(S, n) == UNION {[1..m -> S] : m \in 0..n}

\* The text whose lines are ls, each ended by a newline.
JoinLines(ls) == Concat([i \in 1..Len(ls) |-> ls[i] \o <<"\n">>])

\* A path that names no file.
NoFile == [exists |-> FALSE, data |-> <<>>]

Paths == {"p1", "p2", "p3"}

---------------------------------------------------------------------------
(* ParserSpec: one call of parse_global_text, line by line                 *)

Lines == lines

InitParse ==
    /\ text \in {JoinLines(ls) : ls \in SeqsUpTo(LinePool, MaxLines)}
    /\ lines = splitlines(text)
    /\ idx = 0
    /\ in_block = FALSE
    /\ d = <<>>
    /\ order = <<>>
    /\ pc = "loop"
    /\ fs = [p \in Paths |-> NoFile]
    /\ fs0 = [p \in Paths |-> NoFile]
    /\ args = <<>>
    /\ missing = <<>>
    /\ summary = <<>>
    /\ back = <<>>

\* Lines 32-49: the for loop takes the next line; break leads to the return.
ParseLine ==
    /\ pc = "loop"
    /\ idx < Len(Lines)
    /\ \E st \in {LoopBody([in_block |-> in_block, d |-> d, order |-> order,
                             brk |-> FALSE], Lines[idx + 1])} :
           /\ in_block' = st.in_block
           /\ d' = st.d
           /\ order' = st.order
           /\ pc' = IF st.brk THEN "done" ELSE "loop"
    /\ idx' = idx + 1
    /\ UNCHANGED <<fs, text, lines, args, fs0, missing, summary, back>>

\* Line 50: the lines are exhausted, the function returns.
ParseReturn ==
    /\ pc = "loop"
    /\ idx = Len(Lines)
    /\ pc' = "done"
    /\ UNCHANGED <<fs, text, lines, idx, in_block, d, order, args, fs0, missing, summary, back>>

NextParse == ParseLine \/ ParseReturn

ParserSpec == InitParse /\ [][NextParse]_vars

---------------------------------------------------------------------------
(* Spec: one call of run_diff on two dump files                            *)

\* Most entry lines in the block of the file at p1.
MaxEntries == 2

\* Most entry lines in the block of the file at p2.
MaxLatestEntries == 1

\* The entry lines the blocks of the input files are made of.
EntryPool ==
    { <<"0", "x", "1", "=", "A">>,                         \* 0x1=A
      <<"0", "x", "a", " ", "=", " ", "B", " ">>,          \* 0xa = B_
      <<"0", "x", "A", "=", "{">> }                        \* 0xA={

\* A dump: the version line, the open brace, the entries, the close brace.
DumpText(entries) ==
    JoinLines(<< VersionLine(<<>>), <<"{">> >> \o entries \o << <<"}">> >>)

Dumps(n) == {DumpText(es) : es \in SeqsUpTo(EntryPool, n)}

File(t) == [exists |-> TRUE, data |-> Utf8Encode(t)]

\* The arguments run_diff is called with.
BasePaths == {"p1"}
LatestPaths == {"p1", "p2"}
OutPaths == {"p1", "p2", "p3"}
Titles == {<<>>}
Indents == {<<"\t">>}

Init ==
    /\ \E t1 \in Dumps(MaxEntries), t2 \in Dumps(MaxLatestEntries) :
          fs = [p \in Paths |-> IF p = "p1" THEN File(t1)
                                ELSE IF p = "p2" THEN File(t2) ELSE NoFile]
    /\ fs0 = fs
    /\ pc = "idle"
    /\ text = <<>>
    /\ lines = <<>>
    /\ idx = 0
    /\ in_block = FALSE
    /\ d = <<>>
    /\ order = <<>>
    /\ args = <<>>
    /\ missing = <<>>
    /\ summary = <<>>
    /\ back = <<>>

\* run_diff(base, latest, out, invert, keep_order, wrap, title, indent), lines 70-93.
RunDiff ==
    /\ pc = "idle"
    /\ \E base \in BasePaths, latest \in LatestPaths, out \in OutPaths,
          invert \in BOOLEAN, keep_order \in BOOLEAN, wrap \in BOOLEAN,
          title \in Titles, indent \in Indents :
          /\ fs[base].exists
          /\ fs[latest].exists
          /\ \E r \in {run_diff(fs, base, latest, out, invert, keep_order,
                                 wrap, title, indent)} :
                 /\ fs' = r.fs
                 /\ missing' = r.missing
                 /\ summary' = r.summary
          /\ args' = [base |-> base, latest |-> latest, out |-> out,
                      invert |-> invert, keep_order |-> keep_order,
                      wrap |-> wrap, title |-> title, indent |-> indent]
    /\ fs0' = fs
    /\ pc' = "returned"
    /\ UNCHANGED <<text, lines, idx, in_block, d, order, back>>

Next == RunDiff

Spec == Init /\ [][Next]_vars

---------------------------------------------------------------------------
(* RoundTripSpec: a table is parsed, keys of it are written wrapped, and   *)
(* the written file is parsed                                              *)

\* Most keys handed to emit_lines.
MaxKeys == 2

KeyPool == { <<"0", "x", "1">>, <<"0", "x", "a">>, <<"0", "x", "A">> }

\* The key sequences without duplicates.
KeySeqs == {ks \in SeqsUpTo(KeyPool, MaxKeys) : NoDup(ks)}

\* The indent strings: none, a tab, two spaces, a newline, a comment marker.
RoundTripIndents == { <<>>, <<"\t">>, <<" ", " ">>, <<"\n">>, <<"#">> }

\* The titles: none, one ending in an open brace, one of three lines.
RoundTripTitles == { <<>>, <<"z", "{">>, <<"z", "\n", "{", "\n", "}">> }

InitRoundTrip ==
    /\ \E t \in Dumps(MaxEntries) :
          fs = [p \in Paths |-> IF p = "p1" THEN File(t) ELSE NoFile]
    /\ fs0 = fs
    /\ pc = "start"
    /\ text = <<>>
    /\ lines = <<>>
    /\ idx = 0
    /\ in_block = FALSE
    /\ d = <<>>
    /\ order = <<>>
    /\ args = <<>>
    /\ missing = <<>>
    /\ summary = <<>>
    /\ back = <<>>

\* d, order = parse_global_file("p1"): the source table.
ParseSource ==
    /\ pc = "start"
    /\ \E r \in {parse_global_file(fs, "p1")} :
          /\ d' = r.d
          /\ order' = r.order
    /\ pc' = "parsed"
    /\ UNCHANGED <<fs, text, lines, idx, in_block, args, fs0, missing, summary, back>>

\* write_output("p3", emit_lines(keys, d, indent), wrap=True, title, indent)
Serialize ==
    /\ pc = "parsed"
    /\ \E keys \in KeySeqs, indent \in RoundTripIndents, title \in RoundTripTitles :
          /\ fs' = write_output(fs, "p3", emit_lines(keys, d, indent), TRUE, title, indent)
          /\ args' = [keys |-> keys, indent |-> indent, title |-> title,
                      wrap |-> TRUE, out |-> "p3"]
    /\ pc' = "written"
    /\ UNCHANGED <<text, lines, idx, in_block, d, order, fs0, missing, summary, back>>

\* back = parse_global_file("p3")
ParseBack ==
    /\ pc = "written"
    /\ back' = parse_global_file(fs, args.out)
    /\ pc' = "reparsed"
    /\ UNCHANGED <<fs, text, lines, idx, in_block, d, order, args, fs0, missing, summary>>

NextRoundTrip == ParseSource \/ Serialize \/ ParseBack

RoundTripSpec == InitRoundTrip /\ [][NextRoundTrip]_vars

---------------------------------------------------------------------------
(* What the input says, read off the lines without running the loop        *)

\* The first open-brace line of ls (0: none).
OpenAtOf(ls) ==
    LET I == {i \in 1..Len(ls) : OPEN_BRACE_RE(ls[i])}
    IN  IF I = {} THEN 0 ELSE Min(I)

\* The first close-brace line of ls after the open-brace line (Len + 1: none).
CloseAtOf(ls) ==
    LET I == {i \in (OpenAtOf(ls) + 1)..Len(ls) : CLOSE_BRACE_RE(ls[i])}
    IN  IF I = {} THEN Len(ls) + 1 ELSE Min(I)

\* The lines the loop meets with in_block set, the closing one included.
HandledOf(ls) ==
    LET o == OpenAtOf(ls)
        c == CloseAtOf(ls)
    IN  {i \in 1..Len(ls) : o > 0 /\ o < i /\ i <= c}

\* The lines strictly inside the block.
BodyOf(ls) ==
    LET o == OpenAtOf(ls)
        c == CloseAtOf(ls)
    IN  {i \in 1..Len(ls) : o > 0 /\ o < i /\ i < c}

\* The lines of the block that define key K.
DefsIn(ls, K) == {i \in BodyOf(ls) : PAIR_RE(ls[i]).ok /\ PAIR_RE(ls[i]).key = K}

\* The keys the block defines.
KeysIn(ls) == {PAIR_RE(ls[i]).key : i \in {j \in BodyOf(ls) : PAIR_RE(ls[j]).ok}}

OpenAt == OpenAtOf(Lines)
CloseAt == CloseAtOf(Lines)
Handled == HandledOf(Lines)
Body == BodyOf(Lines)
DefsOf(K) == DefsIn(Lines, K)
DefinedKeys == KeysIn(Lines)

Positions(seq, K) == {i \in 1..Len(seq) : seq[i] = K}

\* The text without its line i.
RemoveLine(i) == JoinLines(SubSeq(Lines, 1, i - 1) \o SubSeq(Lines, i + 1, Len(Lines)))

\* The rest of the line after its first "=".
AfterFirstEq(l) == SubSeq(l, Min({i \in 1..Len(l) : l[i] = "="}) + 1, Len(l))

LStrip(s) == SubSeq(s, SkipSpace(s, 1), Len(s))

\* The loop has just stored an entry from line idx.
JustStored == idx \in Body /\ PAIR_RE(Lines[idx]).ok

\* The parser's state in the terms of the specification's state machine.
PState == IF pc = "done" THEN "Done" ELSE IF in_block THEN "InBlock" ELSE "BeforeBlock"

---------------------------------------------------------------------------
(* Claims on ParserSpec                                                    *)

\* C5: when key K is defined more than once inside the block, the parsed table
\* maps K to the value of its last definition, and K is in order exactly once,
\* before every key first defined after K's first definition and after every
\* key first defined before it.
C5_DuplicateKeyPolicy ==
    pc = "done" =>
        \A K \in DefinedKeys :
            Cardinality(DefsOf(K)) > 1 =>
                /\ DictHas(d, K)
                /\ DictGet(d, K, <<>>) = PAIR_RE(Lines[Max(DefsOf(K))]).val
                /\ Cardinality(Positions(order, K)) = 1
                /\ \A K2 \in DefinedKeys :
                       Min(DefsOf(K)) < Min(DefsOf(K2)) =>
                           /\ Positions(order, K2) # {}
                           /\ Max(Positions(order, K)) < Min(Positions(order, K2))
                /\ \A K2 \in DefinedKeys :
                       Min(DefsOf(K2)) < Min(DefsOf(K)) =>
                           /\ Positions(order, K2) # {}
                           /\ Max(Positions(order, K2)) < Min(Positions(order, K))

\* A key defined twice with different values, another key first defined in between.
C5_Witness ==
    /\ pc = "done"
    /\ \E K \in DefinedKeys :
          /\ Cardinality(DefsOf(K)) > 1
          /\ PAIR_RE(Lines[Min(DefsOf(K))]).val # PAIR_RE(Lines[Max(DefsOf(K))]).val
          /\ \E K2 \in DefinedKeys :
                /\ Min(DefsOf(K)) < Min(DefsOf(K2))
                /\ Min(DefsOf(K2)) < Max(DefsOf(K))

\* C8 as stated, by its result: for every blank or comment line the loop meets
\* in-block, the parsed table is the one of the input without that line (the
\* line added nothing, changed nothing and left the parser in-block).
C8_Original ==
    pc = "done" =>
        \A i \in Handled :
            is_comment_or_blank(Lines[i]) =>
                parse_global_text(RemoveLine(i)) = [d |-> d, order |-> order]

\* C8 amended: the same for every blank or comment line that is not a close-brace
\* line (one whose last non-blank character is "}").
C8_SkippedLinesNoEffect ==
    /\ [][(/\ pc = "loop"
           /\ in_block
           /\ idx < Len(Lines)
           /\ is_comment_or_blank(Lines[idx + 1])
           /\ ~CLOSE_BRACE_RE(Lines[idx + 1]))
          => (d' = d /\ order' = order /\ in_block' /\ pc' = "loop")]_vars
    /\ [](pc = "done" =>
            \A i \in Handled :
                (is_comment_or_blank(Lines[i]) /\ ~CLOSE_BRACE_RE(Lines[i])) =>
                    parse_global_text(RemoveLine(i)) = [d |-> d, order |-> order])

\* A blank line and a comment line inside the block, an entry stored after them.
C8_Witness ==
    /\ pc = "done"
    /\ \E i, j \in Body :
          /\ strip(Lines[i]) = <<>>
          /\ strip(Lines[j]) # <<>>
          /\ is_comment_or_blank(Lines[j])
          /\ \E k \in Body : k > i /\ k > j /\ PAIR_RE(Lines[k]).ok
    /\ d # <<>>

\* C9 as stated: the value stored for an entry line is all of the line after
\* its first "=".
C9_Original ==
    JustStored =>
        DictGet(d, PAIR_RE(Lines[idx]).key, <<>>) = AfterFirstEq(Lines[idx])

\* C9 amended: the value stored for an entry line is the line after its first
\* "=" without the whitespace that follows the "="; from its first non-blank
\* character to the end of the line nothing is dropped or changed.
C9_ValueVerbatimAfterLeadingSpace ==
    JustStored =>
        /\ DictHas(d, PAIR_RE(Lines[idx]).key)
        /\ DictGet(d, PAIR_RE(Lines[idx]).key, <<>>) = LStrip(AfterFirstEq(Lines[idx]))

\* An entry whose value has whitespace before and after it has just been stored.
C9_Witness ==
    /\ JustStored
    /\ LET r == AfterFirstEq(Lines[idx])
       IN  /\ Len(r) >= 3
           /\ IsSpace(r[1])
           /\ IsSpace(r[Len(r)])
           /\ LStrip(r) # <<>>

\* C10: the parser starts in BeforeBlock; there no line adds an entry; it enters
\* InBlock only on an open-brace line and never leaves it but for Done; it
\* reaches Done only on a close-brace line met in InBlock or at the end of the
\* input, and a close-brace line met in InBlock always leads there; in Done
\* nothing changes any more; the parsed keys are those defined between the first
\* open-brace line and the first close-brace line after it, so none when there
\* is no open-brace line.
C10_StateMachine ==
    /\ PState = "BeforeBlock"
    /\ [][/\ PState = "BeforeBlock" => (d = <<>> /\ d' = d /\ order' = order)
          /\ (PState = "BeforeBlock" /\ PState' = "InBlock") =>
                 OPEN_BRACE_RE(Lines[idx + 1])
          /\ PState = "InBlock" => PState' \in {"InBlock", "Done"}
          /\ (PState # "Done" /\ PState' = "Done") =>
                 \/ idx = Len(Lines)
                 \/ PState = "InBlock" /\ CLOSE_BRACE_RE(Lines[idx + 1])
          /\ (PState = "InBlock" /\ idx < Len(Lines) /\ CLOSE_BRACE_RE(Lines[idx + 1])) =>
                 (PState' = "Done" /\ d' = d /\ order' = order)
          /\ PState = "Done" => (PState' = "Done" /\ d' = d /\ order' = order)]_vars
    /\ [](pc = "done" =>
            /\ Range(order) = DefinedKeys
            /\ Range(DictKeys(d)) = DefinedKeys
            /\ (OpenAt = 0 => d = <<>> /\ order = <<>>))

\* A finished parse of an input with an entry line before the open-brace line
\* and one after the close-brace line.
C10_Witness ==
    /\ pc = "done"
    /\ OpenAt > 1
    /\ \E i \in 1..(OpenAt - 1) : PAIR_RE(Lines[i]).ok
    /\ \E i \in (CloseAt + 1)..Len(Lines) : PAIR_RE(Lines[i]).ok

\* An input without any open-brace line that holds an entry line has been parsed.
C10_WitnessNoBlock ==
    pc = "done" /\ OpenAt = 0 /\ \E i \in 1..Len(Lines) : PAIR_RE(Lines[i]).ok

---------------------------------------------------------------------------
(* Claims on Spec                                                          *)

\* The lines of the file run_diff was given at path p.
LinesAt(p) == splitlines(smart_read(fs0, p))

\* The path of the source table and of the other table of the call.
SourcePath == IF args.invert THEN args.latest ELSE args.base
OtherPath == IF args.invert THEN args.base ELSE args.latest

\* The keys of the entry lines of the file run_diff wrote, in the file's order.
WrittenKeys ==
    LET ls == splitlines(smart_read(fs, args.out))
        entries == IF args.wrap THEN SubSeq(ls, 3, Len(ls) - 1) ELSE ls
    IN  [i \in 1..Len(entries) |-> PAIR_RE(entries[i]).key]

\* C2: the keys run_diff writes have no duplicates and are exactly the keys of
\* the source file (base, or latest when invert) that the other file lacks.
C2_MissingKeySet ==
    pc = "returned" =>
        LET w == WrittenKeys
        IN  /\ w = missing
            /\ NoDup(w)
            /\ Range(w) = KeysIn(LinesAt(SourcePath)) \ KeysIn(LinesAt(OtherPath))

\* A forward diff of files that share a key, with a key written.
C2_Witness ==
    /\ pc = "returned"
    /\ ~args.invert
    /\ args.out = "p3"
    /\ WrittenKeys # <<>>
    /\ KeysIn(LinesAt(SourcePath)) \cap KeysIn(LinesAt(OtherPath)) # {}

\* C3 as stated: without keep_order each written key's uppercased form is
\* strictly less than that of the key after it.
C3_Original ==
    (pc = "returned" /\ ~args.keep_order) =>
        \A i \in 1..(Len(WrittenKeys) - 1) :
            StrLess(Upper(WrittenKeys[i]), Upper(WrittenKeys[i + 1]))

\* C3 amended: without keep_order no written key's uppercased form is greater
\* than that of the key after it; two neighbours with equal uppercased forms are
\* distinct keys, which differ in letter case only.
C3_AscendingIgnoringCase ==
    (pc = "returned" /\ ~args.keep_order) =>
        LET w == WrittenKeys
        IN  \A i \in 1..(Len(w) - 1) :
                /\ ~StrLess(Upper(w[i + 1]), Upper(w[i]))
                /\ w[i] # w[i + 1]

\* Without keep_order two keys are written in the reverse of their order in the
\* source file.
C3_Witness ==
    /\ pc = "returned"
    /\ ~args.keep_order
    /\ args.out = "p3"
    /\ \E i \in 1..(Len(WrittenKeys) - 1) :
          Min(DefsIn(LinesAt(SourcePath), WrittenKeys[i + 1]))
              < Min(DefsIn(LinesAt(SourcePath), WrittenKeys[i]))

\* C4: with keep_order the written keys are the keys of the source file that
\* the other file lacks, in the order of their first definitions in the source
\* file.
C4_KeepOrderSubsequence ==
    (pc = "returned" /\ args.keep_order) =>
        LET sl == LinesAt(SourcePath)
            w == WrittenKeys
        IN  /\ Range(w) = KeysIn(sl) \ KeysIn(LinesAt(OtherPath))
            /\ \A i, j \in 1..Len(w) :
                   i < j => Min(DefsIn(sl, w[i])) < Min(DefsIn(sl, w[j]))

\* With keep_order two keys are written in an order that is not ascending.
C4_Witness ==
    /\ pc = "returned"
    /\ args.keep_order
    /\ args.out = "p3"
    /\ \E i \in 1..(Len(WrittenKeys) - 1) :
          StrLess(Upper(WrittenKeys[i + 1]), Upper(WrittenKeys[i]))

\* C6 as stated: after run_diff the files at base and latest are as before the
\* call, and so is every file but the one at out.
C6_InputsUnchanged ==
    pc = "returned" =>
        /\ fs[args.base] = fs0[args.base]
        /\ fs[args.latest] = fs0[args.latest]
        /\ \A p \in Paths \ {args.out} : fs[p] = fs0[p]

\* C7: "missing in latest" is the number of keys of the base file that the
\* latest file lacks and "missing in base" the number of keys of the latest file
\* that the base file lacks, whatever invert and keep_order are; the first is
\* what the call with base and latest swapped reports as "missing in base".
C7_CountsSymmetric ==
    pc = "returned" =>
        LET bk == KeysIn(LinesAt(args.base))
            lk == KeysIn(LinesAt(args.latest))
            flipInvert == run_diff(fs0, args.base, args.latest, args.out,
                                   ~args.invert, args.keep_order, args.wrap,
                                   args.title, args.indent).summary
            flipOrder == run_diff(fs0, args.base, args.latest, args.out,
                                  args.invert, ~args.keep_order, args.wrap,
                                  args.title, args.indent).summary
            swapped == run_diff(fs0, args.latest, args.base, args.out,
                                args.invert, args.keep_order, args.wrap,
                                args.title, args.indent).summary
        IN  /\ summary.base_only = Cardinality(bk \ lk)
            /\ summary.latest_only = Cardinality(lk \ bk)
            /\ flipInvert.base_only = summary.base_only
            /\ flipInvert.latest_only = summary.latest_only
            /\ flipOrder.base_only = summary.base_only
            /\ flipOrder.latest_only = summary.latest_only
            /\ swapped.latest_only = summary.base_only

\* An inverted diff whose two counts are positive and differ.
C7_Witness ==
    /\ pc = "returned"
    /\ args.invert
    /\ summary.base_only > 0
    /\ summary.latest_only > 0
    /\ summary.base_only # summary.latest_only

---------------------------------------------------------------------------
(* Claims on RoundTripSpec                                                 *)

\* The table parsed from the written file has exactly the serialized keys, each
\* with the value that was written for it (the source table's, or the empty
\* string for a key the source table lacks).
RoundTrips ==
    /\ Range(DictKeys(back.d)) = Range(args.keys)
    /\ Range(back.order) = Range(args.keys)
    /\ \A k \in Range(args.keys) :
           DictGet(back.d, k, <<"?">>) = DictGet(d, k, <<>>)

\* C1 as stated: for every key sequence without duplicates, every source table
\* and every indent string, parsing the wrapped output gives back the serialized
\* keys with their values.
C1_Original == pc = "reparsed" => RoundTrips

\* C1 amended: the same for every indent made of whitespace only and every
\* title without a line break.
C1_RoundTrip ==
    (/\ pc = "reparsed"
     /\ \A i \in 1..Len(args.indent) : IsSpace(args.indent[i])
     /\ \A i \in 1..Len(args.title) : args.title[i] # "\n") => RoundTrips

\* Two keys, one of the source table with a value ending in whitespace and one
\* the table lacks, written with a non-empty whitespace indent under a title,
\* and parsed back.
C1_Witness ==
    /\ pc = "reparsed"
    /\ args.indent \in { <<"\t">>, <<" ", " ">> }
    /\ args.title = <<"z", "{">>
    /\ Len(args.keys) = 2
    /\ \E k \in Range(args.keys) : ~DictHas(d, k)
    /\ \E k \in Range(args.keys) :
          /\ DictHas(d, k)
          /\ IsSpace(DictGet(d, k, <<>>)[Len(DictGet(d, k, <<>>))])
    /\ Len(back.d) = 2

=============================================================================
